---- MODULE Spec2Model ----
(***************************************************************************)
(* TinyIMGserver: GPU inventory (scan_gpus), the lock-per-GPU allocator    *)
(* (acquire_gpu / release_gpu), the statistics tracker (ServerStats) and   *)
(* the /generate request handler (generate_image).                         *)
(*                                                                         *)
(* Time is counted in ticks of one polling interval (time.sleep(0.1)).     *)
(* A task is one thread of control: either one /generate request running   *)
(* on an event loop, or a direct caller of acquire_gpu / release_gpu.      *)
(***************************************************************************)
EXTENDS Integers, Sequences, FiniteSets, TLC

\* ---------------------------------------------------------------- bounds
NProc == 2        \* tasks
NLoops == 2       \* event loops serving /generate (one per serving thread)
MaxGpus == 2      \* devices the nvidia-smi query may report
MaxTimeout == 1   \* largest configured image_generation_timeout, in ticks
MaxCount == 2     \* largest counter value threads calling ServerStats drive it to
MaxGauge == 1     \* largest value such a thread passes to a gauge setter

Procs == 1..NProc

\* a thread that calls acquire_gpu / release_gpu directly next to the
\* requests; the tasks are the requests' tasks and this one
Owner == NProc + 1
Tasks == 1..Owner

\* Python's None, and a malformed nvidia-smi output line
None == 0 - 3
Bad == 0 - 2

\* no release_gpu call to speak of
NotReleased == 0 - 4

Min(a, b) == IF a < b THEN a ELSE b

\* ------------------------------------------------------------ scan_gpus
\* Outcomes of the nvidia-smi query: the call fails (ok = FALSE), or it
\* returns lines; a line is the device index it carries, or Bad when it
\* does not split into three fields / its index is not an integer.  An
\* empty stdout yields the single line "" (Bad).
GoodLines(k) == [i \in 1..k |-> i - 1]

NvidiaOutputs ==
    {[ok |-> FALSE, lines |-> <<>>]}
    \cup {[ok |-> TRUE, lines |-> GoodLines(k)] : k \in 1..MaxGpus}
    \cup {[ok |-> TRUE, lines |-> GoodLines(k) \o <<Bad>>] : k \in 0..(MaxGpus - 1)}

ScanInputs ==
    [nvidia : NvidiaOutputs, apple : BOOLEAN, sysctl_ok : BOOLEAN]

\* number of leading lines parsed before one raises
RECURSIVE ParsedPrefix(_)
ParsedPrefix(lines) ==
    IF lines = <<>> \/ Head(lines) = Bad THEN 0
    ELSE 1 + ParsedPrefix(Tail(lines))

scan_gpus(in) ==
    LET n == IF in.nvidia.ok THEN ParsedPrefix(in.nvidia.lines) ELSE 0
        nv == [i \in 1..n |-> [id |-> in.nvidia.lines[i], type |-> "NVIDIA"]]
        raised == ~in.nvidia.ok \/ n < Len(in.nvidia.lines)
        withApple == IF in.apple /\ in.sysctl_ok
                     THEN Append(nv, [id |-> 0, type |-> "Apple"])
                     ELSE nv
    IN  IF ~raised THEN nv
        ELSE IF withApple = <<>>
             THEN <<[id |-> 0, type |-> "CPU"]>>
             ELSE withApple

\* -------------------------------------------------------------- _gpu_locks
\* keys of the dict comprehension, in insertion order (a repeated key keeps
\* its first position)
RECURSIVE Dedup(_, _)
Dedup(s, seen) ==
    IF s = <<>> THEN <<>>
    ELSE IF Head(s) \in seen THEN Dedup(Tail(s), seen)
    ELSE <<Head(s)>> \o Dedup(Tail(s), seen \cup {Head(s)})

LockOrderOf(G) ==
    LET nonCpu == SelectSeq(G, LAMBDA g : g.type # "CPU")
    IN  Dedup([i \in 1..Len(nonCpu) |-> nonCpu[i].id], {})

\* the dict as built at import: one unlocked threading.Lock() per key
NewLocks(G) ==
    [i \in 1..Len(LockOrderOf(G)) |-> [id |-> LockOrderOf(G)[i], locked |-> FALSE]]

\* keys of a lock dict, and whether the lock of a key is locked
KeysOf(locks) == {locks[i].id : i \in DOMAIN locks}

LockedIn(locks, g) == \E i \in DOMAIN locks : locks[i].id = g /\ locks[i].locked

SetLocked(locks, g, v) ==
    [i \in DOMAIN locks |->
        IF locks[i].id = g THEN [locks[i] EXCEPT !.locked = v] ELSE locks[i]]

\* ------------------------------------------------------- GenerateRequest
\* str.lower() and str.strip() on the strings the payloads use
Lower(s) ==
    CASE s = "Flux" -> "flux"
      [] s = "SDXL" -> "sdxl"
      [] s = "UnknownModel" -> "unknownmodel"
      [] OTHER -> s

Strip(s) == IF s = "   " THEN "" ELSE s

prompt_must_not_be_empty(v) == v # "" /\ Strip(v) # ""

model_must_be_valid(v) ==
    /\ v # "" /\ Strip(v) # ""
    /\ Lower(v) \in {"flux", "sdxl"}

\* dimensions_range with the lower end of the range left out
dimensions_range_open(v) == 64 < v /\ v <= 2048

dimensions_range(v) == 64 <= v /\ v <= 2048

steps_range(v) == 1 <= v /\ v <= 100

seed_non_negative(v) == v = None \/ v >= 0

\* guidance_scale is carried in tenths (7.5 is 75)
guidance_scale_range(v) == 10 <= v /\ v <= 200

Valid(r) ==
    /\ prompt_must_not_be_empty(r.prompt)
    /\ model_must_be_valid(r.model)
    /\ dimensions_range(r.width) /\ dimensions_range(r.height)
    /\ steps_range(r.steps)
    /\ guidance_scale_range(r.guidance_scale)
    /\ seed_non_negative(r.seed)

\* the validated request object: model is replaced by its lower-case form,
\* a key of the body that is no field of the class is dropped
GenerateRequest(r) ==
    [prompt |-> r.prompt, model |-> Lower(r.model), width |-> r.width,
     height |-> r.height, steps |-> r.steps,
     guidance_scale |-> r.guidance_scale, seed |-> r.seed]

BasePayload ==
    [prompt |-> "A basket of kittens", model |-> "flux", width |-> 512,
     height |-> 512, steps |-> 20, guidance_scale |-> 75, seed |-> 42,
     timeout |-> None]

Payloads ==
    { BasePayload,
      [BasePayload EXCEPT !.model = "SDXL", !.seed = None, !.timeout = 0],
      [BasePayload EXCEPT !.model = "UnknownModel"],
      [BasePayload EXCEPT !.prompt = "   "] }

\* bodies at and next to the ends of every validated range
BoundaryPayloads ==
    {BasePayload}
    \cup {[BasePayload EXCEPT !.prompt = v] : v \in {"", "   "}}
    \cup {[BasePayload EXCEPT !.model = v] :
             v \in {"Flux", "SDXL", "sdxl", "", "   ", "UnknownModel"}}
    \cup {[BasePayload EXCEPT !.width = v] : v \in {63, 64, 2048, 2049}}
    \cup {[BasePayload EXCEPT !.height = v] : v \in {63, 64, 2048, 2049}}
    \cup {[BasePayload EXCEPT !.steps = v] : v \in {0, 1, 100, 101}}
    \cup {[BasePayload EXCEPT !.guidance_scale = v] : v \in {9, 10, 200, 201}}
    \cup {[BasePayload EXCEPT !.seed = v] : v \in {None, 0 - 1, 0}}

NoPayload == [BasePayload EXCEPT !.prompt = "", !.model = ""]

\* seeds random.randint may return when the caller gave none
RandomSeeds == {7}

\* ------------------------------------------------------------------ state
VARIABLES
    gpu_locks,    \* resources._gpu_locks, in insertion order: <<[id, locked]>>
    CONFIG,       \* CONFIG["image_generation_timeout"], in ticks
    stats,        \* server_stats._stats
    pc,           \* task -> where it is
    kind,         \* task -> "request" (a /generate call) or "api" (direct caller)
    payload,      \* task -> the JSON body it sent
    timeout,      \* task -> acquire_gpu's timeout
    elapsed,      \* task -> time.time() - start inside acquire_gpu
    idx,          \* task -> position of the pass over _gpu_locks.items()
    gpu_id,       \* task -> what acquire_gpu returned
    status,       \* task -> HTTP status of the response (0: none yet)
    image,        \* task -> image_data: "none", "model" or "mock"
    actual_seed,  \* task -> seed returned by the generation routine
    calls,        \* task -> how often the request called each stats / release
                  \*         operation and how often its model routine raised
    stage,        \* progress of one direct caller through acquire, release, acquire
    raised,       \* task -> the direct caller's last release_gpu raised RuntimeError
    released,     \* the id Caller passed to release_gpu, if that was its last call
    stats_lock,   \* server_stats._lock: the task holding it, 0 when free
    snapshot,     \* the dict get_stats is about to return
    waiters       \* the requests that were inside acquire_gpu when a lock was
                  \* last freed, if there were several

vars == <<gpu_locks, CONFIG, stats, pc, kind, payload, timeout,
          elapsed, idx, gpu_id, status, image, actual_seed, calls, stage, raised,
          released, stats_lock, snapshot, waiters>>

LockOrder == [i \in DOMAIN gpu_locks |-> gpu_locks[i].id]
LockKeys == KeysOf(gpu_locks)
Locked(g) == LockedIn(gpu_locks, g)

ConfigTimeouts == (0 - 1)..MaxTimeout

NoSnapshot == [total_requests |-> None]

NoCalls ==
    [request |-> 0, success |-> 0, failure |-> 0, release |-> 0,
     model_raised |-> 0]

\* GPUS = scan_gpus(); _gpu_locks = {...}; CONFIG = load_config();
\* server_stats = ServerStats()
Init ==
    /\ \E in \in ScanInputs : gpu_locks = NewLocks(scan_gpus(in))
    /\ CONFIG \in ConfigTimeouts
    /\ stats = [total_requests |-> 0, successful_generations |-> 0,
                failed_generations |-> 0, queue_length |-> 0,
                last_generation |-> "None", active_generations |-> 0]
    /\ pc = [p \in Tasks |-> "idle"]
    /\ kind = [p \in Tasks |-> "none"]
    /\ payload = [p \in Tasks |-> NoPayload]
    /\ timeout = [p \in Tasks |-> 0]
    /\ elapsed = [p \in Tasks |-> 0]
    /\ idx = [p \in Tasks |-> 1]
    /\ gpu_id = [p \in Tasks |-> None]
    /\ status = [p \in Tasks |-> 0]
    /\ image = [p \in Tasks |-> "none"]
    /\ actual_seed = [p \in Tasks |-> None]
    /\ calls = [p \in Tasks |-> NoCalls]
    /\ stage = 0
    /\ raised = [p \in Tasks |-> FALSE]
    /\ released = NotReleased
    /\ stats_lock = 0
    /\ snapshot = NoSnapshot
    /\ waiters = {}

\* ------------------------------------------------------------ ServerStats
\* increment_request counting the request into the queue as well
increment_request_queued(s) ==
    [s EXCEPT !.total_requests = @ + 1, !.queue_length = @ + 1]

increment_request(s) == [s EXCEPT !.total_requests = @ + 1]

\* the two statements of increment_success
count_success(s) == [s EXCEPT !.successful_generations = @ + 1]

stamp_last_generation(s) == [s EXCEPT !.last_generation = "time"]

increment_success(s) == stamp_last_generation(count_success(s))

increment_failure(s) == [s EXCEPT !.failed_generations = @ + 1]

\* set_queue_length writing the wrong key of the dict
set_queue_length_wrong_key(s, length) == [s EXCEPT !.total_requests = length]

set_queue_length(s, length) == [s EXCEPT !.queue_length = length]

set_active_generations(s, count) == [s EXCEPT !.active_generations = count]

\* ------------------------------------------------ acquire_gpu / release_gpu
InAcquire(p) == pc[p] \in {"poll", "sleep"}

\* the requests inside acquire_gpu, and what is remembered of them once
\* release_gpu has returned
WaitingRequests == {q \in Procs : kind[q] = "request" /\ InAcquire(q)}

WaitersAfterRelease(freed) ==
    IF ~freed THEN waiters
    ELSE IF Cardinality(WaitingRequests) >= 2 THEN WaitingRequests ELSE {}

\* where acquire_gpu returns to: the handler goes on at its next statement,
\* a direct caller is free for its next call
ReturnTo(p, handler_pc) == IF kind[p] = "api" THEN "idle" ELSE handler_pc

\* the direct caller whose calls are followed (the callers are
\* interchangeable)
Caller == 1

\* The caller's progress through acquire, release, acquire(timeout=0):
\* 1 after an acquire returned an id, 2 after that id was released, 3 once
\* acquire_gpu(timeout=0) was then called.  A lock taken or freed by
\* another task voids the sequence.
StageAfterAcquire(p, got) ==
    IF p = Caller
    THEN IF kind[p] # "api" THEN stage
         ELSE IF stage = 3 THEN 3 ELSE IF got THEN 1 ELSE 0
    ELSE IF got THEN 0 ELSE stage

StageAfterRelease(p, id, changed) ==
    IF p = Caller
    THEN IF kind[p] # "api" THEN stage
         ELSE IF stage \in {1, 3} /\ id = gpu_id[p] THEN 2 ELSE 0
    ELSE IF changed THEN 0 ELSE stage

\* the value of time.time() - start is kept up to the point where the
\* timeout test can no longer change
ElapsedCap(t) == IF t < 0 THEN 0 ELSE t + 1

\* TryLock with the result of lock.acquire ignored
TryLockBlind(p) ==
    /\ pc[p] = "poll"
    /\ idx[p] <= Len(gpu_locks)
    /\ LET g == gpu_locks[idx[p]].id
       IN  /\ gpu_locks' = SetLocked(gpu_locks, g, TRUE)
           /\ gpu_id' = [gpu_id EXCEPT ![p] = g]
    /\ pc' = [pc EXCEPT ![p] = ReturnTo(p, "acquired")]
    /\ idx' = [idx EXCEPT ![p] = 1]
    /\ elapsed' = [elapsed EXCEPT ![p] = 0]
    /\ timeout' = [timeout EXCEPT ![p] = 0]
    /\ stage' = StageAfterAcquire(p, TRUE)
    /\ UNCHANGED <<stats_lock, snapshot, waiters, released, CONFIG, stats,
                   kind, payload, status, image, actual_seed, calls, raised>>

\* TryLock with the pass running over the dict from its last key
TryLockReversed(p) ==
    /\ pc[p] = "poll"
    /\ idx[p] <= Len(gpu_locks)
    /\ LET g == gpu_locks[Len(gpu_locks) + 1 - idx[p]].id
       IN  IF ~LockedIn(gpu_locks, g)
           THEN /\ gpu_locks' = SetLocked(gpu_locks, g, TRUE)
                /\ gpu_id' = [gpu_id EXCEPT ![p] = g]
                /\ pc' = [pc EXCEPT ![p] = ReturnTo(p, "acquired")]
                /\ idx' = [idx EXCEPT ![p] = 1]
                /\ elapsed' = [elapsed EXCEPT ![p] = 0]
                /\ timeout' = [timeout EXCEPT ![p] = 0]
                /\ stage' = StageAfterAcquire(p, TRUE)
           ELSE /\ idx' = [idx EXCEPT ![p] = @ + 1]
                /\ UNCHANGED <<gpu_locks, gpu_id, pc, elapsed, timeout, stage>>
    /\ UNCHANGED <<stats_lock, snapshot, waiters, released, CONFIG, stats,
                   kind, payload, status, image, actual_seed, calls, raised>>

\* TryLock leaving a free lock to a request that arrived earlier and waits
TryLockInTurn(p) ==
    /\ pc[p] = "poll"
    /\ idx[p] <= Len(gpu_locks)
    /\ LET g == gpu_locks[idx[p]].id
       IN  IF /\ ~gpu_locks[idx[p]].locked
              /\ \A q \in WaitingRequests : q >= p
           THEN /\ gpu_locks' = SetLocked(gpu_locks, g, TRUE)
                /\ gpu_id' = [gpu_id EXCEPT ![p] = g]
                /\ pc' = [pc EXCEPT ![p] = ReturnTo(p, "acquired")]
                /\ idx' = [idx EXCEPT ![p] = 1]
                /\ elapsed' = [elapsed EXCEPT ![p] = 0]
                /\ timeout' = [timeout EXCEPT ![p] = 0]
                /\ stage' = StageAfterAcquire(p, TRUE)
           ELSE /\ idx' = [idx EXCEPT ![p] = @ + 1]
                /\ UNCHANGED <<gpu_locks, gpu_id, pc, elapsed, timeout, stage>>
    /\ UNCHANGED <<stats_lock, snapshot, waiters, released, CONFIG, stats,
                   kind, payload, status, image, actual_seed, calls, raised>>

\* TryLock that goes on to the next lock of the pass after it got one
TryLockGreedy(p) ==
    /\ pc[p] = "poll"
    /\ idx[p] <= Len(gpu_locks)
    /\ LET g == gpu_locks[idx[p]].id
       IN  IF ~gpu_locks[idx[p]].locked
           THEN /\ gpu_locks' =
                     [i \in DOMAIN gpu_locks |->
                        IF i \in {idx[p], idx[p] + 1}
                        THEN [gpu_locks[i] EXCEPT !.locked = TRUE]
                        ELSE gpu_locks[i]]
                /\ gpu_id' = [gpu_id EXCEPT ![p] = g]
                /\ pc' = [pc EXCEPT ![p] = ReturnTo(p, "acquired")]
                /\ idx' = [idx EXCEPT ![p] = 1]
                /\ elapsed' = [elapsed EXCEPT ![p] = 0]
                /\ timeout' = [timeout EXCEPT ![p] = 0]
                /\ stage' = StageAfterAcquire(p, TRUE)
           ELSE /\ idx' = [idx EXCEPT ![p] = @ + 1]
                /\ UNCHANGED <<gpu_locks, gpu_id, pc, elapsed, timeout, stage>>
    /\ UNCHANGED <<stats_lock, snapshot, waiters, released, CONFIG, stats,
                   kind, payload, status, image, actual_seed, calls, raised>>

\* lock.acquire(blocking=False) on the next lock of the pass; return gpu_id
\* if it succeeded
TryLock(p) ==
    /\ pc[p] = "poll"
    /\ idx[p] <= Len(gpu_locks)
    /\ LET g == gpu_locks[idx[p]].id
       IN  IF ~gpu_locks[idx[p]].locked
           THEN /\ gpu_locks' = SetLocked(gpu_locks, g, TRUE)
                /\ gpu_id' = [gpu_id EXCEPT ![p] = g]
                /\ pc' = [pc EXCEPT ![p] = ReturnTo(p, "acquired")]
                /\ idx' = [idx EXCEPT ![p] = 1]
                /\ elapsed' = [elapsed EXCEPT ![p] = 0]
                /\ timeout' = [timeout EXCEPT ![p] = 0]
                /\ stage' = StageAfterAcquire(p, TRUE)
           ELSE /\ idx' = [idx EXCEPT ![p] = @ + 1]
                /\ UNCHANGED <<gpu_locks, gpu_id, pc, elapsed, timeout, stage>>
    /\ UNCHANGED <<stats_lock, snapshot, waiters, released, CONFIG, stats,
                   kind, payload, status, image, actual_seed, calls, raised>>

\* CheckTimeout with the comparison turned round (timeout > elapsed)
CheckTimeoutReversed(p) ==
    /\ pc[p] = "poll"
    /\ idx[p] > Len(gpu_locks)
    /\ IF timeout[p] > elapsed[p]
       THEN /\ gpu_id' = [gpu_id EXCEPT ![p] = None]
            /\ pc' = [pc EXCEPT ![p] = ReturnTo(p, "timedout")]
            /\ elapsed' = [elapsed EXCEPT ![p] = 0]
            /\ timeout' = [timeout EXCEPT ![p] = 0]
            /\ stage' = StageAfterAcquire(p, FALSE)
       ELSE /\ pc' = [pc EXCEPT ![p] = "sleep"]
            /\ UNCHANGED <<gpu_id, elapsed, timeout, stage>>
    /\ idx' = [idx EXCEPT ![p] = 1]
    /\ UNCHANGED <<stats_lock, snapshot, waiters, released, gpu_locks, CONFIG,
                   stats, kind, payload, status, image, actual_seed, calls,
                   raised>>

\* CheckTimeout returning the loop variable gpu_id instead of None
CheckTimeoutLeak(p) ==
    /\ pc[p] = "poll"
    /\ idx[p] > Len(gpu_locks)
    /\ IF elapsed[p] > timeout[p]
       THEN /\ gpu_id' = [gpu_id EXCEPT ![p] =
                            IF gpu_locks = <<>> THEN None
                            ELSE gpu_locks[Len(gpu_locks)].id]
            /\ pc' = [pc EXCEPT ![p] =
                        ReturnTo(p, IF gpu_locks = <<>> THEN "timedout"
                                    ELSE "acquired")]
            /\ elapsed' = [elapsed EXCEPT ![p] = 0]
            /\ timeout' = [timeout EXCEPT ![p] = 0]
            /\ stage' = StageAfterAcquire(p, FALSE)
       ELSE /\ pc' = [pc EXCEPT ![p] = "sleep"]
            /\ UNCHANGED <<gpu_id, elapsed, timeout, stage>>
    /\ idx' = [idx EXCEPT ![p] = 1]
    /\ UNCHANGED <<stats_lock, snapshot, waiters, released, gpu_locks, CONFIG,
                   stats, kind, payload, status, image, actual_seed, calls,
                   raised>>

\* CheckTimeout giving up as soon as the timeout is reached (>=)
CheckTimeoutEarly(p) ==
    /\ pc[p] = "poll"
    /\ idx[p] > Len(gpu_locks)
    /\ IF elapsed[p] >= timeout[p]
       THEN /\ gpu_id' = [gpu_id EXCEPT ![p] = None]
            /\ pc' = [pc EXCEPT ![p] = ReturnTo(p, "timedout")]
            /\ elapsed' = [elapsed EXCEPT ![p] = 0]
            /\ timeout' = [timeout EXCEPT ![p] = 0]
            /\ stage' = StageAfterAcquire(p, FALSE)
       ELSE /\ pc' = [pc EXCEPT ![p] = "sleep"]
            /\ UNCHANGED <<gpu_id, elapsed, timeout, stage>>
    /\ idx' = [idx EXCEPT ![p] = 1]
    /\ UNCHANGED <<stats_lock, snapshot, waiters, released, gpu_locks, CONFIG,
                   stats, kind, payload, status, image, actual_seed, calls,
                   raised>>

\* the pass is over: if time.time() - start > timeout: return None;
\* else time.sleep(0.1)
CheckTimeout(p) ==
    /\ pc[p] = "poll"
    /\ idx[p] > Len(gpu_locks)
    /\ IF elapsed[p] > timeout[p]
       THEN /\ gpu_id' = [gpu_id EXCEPT ![p] = None]
            /\ pc' = [pc EXCEPT ![p] = ReturnTo(p, "timedout")]
            /\ elapsed' = [elapsed EXCEPT ![p] = 0]
            /\ timeout' = [timeout EXCEPT ![p] = 0]
            /\ stage' = StageAfterAcquire(p, FALSE)
       ELSE /\ pc' = [pc EXCEPT ![p] = "sleep"]
            /\ UNCHANGED <<gpu_id, elapsed, timeout, stage>>
    /\ idx' = [idx EXCEPT ![p] = 1]
    /\ UNCHANGED <<stats_lock, snapshot, waiters, released, gpu_locks, CONFIG,
                   stats, kind, payload, status, image, actual_seed, calls,
                   raised>>

\* Tick with a clock that stands still: the sleepers wake, no time has passed
TickFrozen ==
    /\ \E p \in Tasks : InAcquire(p)
    /\ UNCHANGED elapsed
    /\ pc' = [p \in Tasks |-> IF pc[p] = "sleep" THEN "poll" ELSE pc[p]]
    /\ UNCHANGED <<stats_lock, snapshot, waiters, released, gpu_locks, CONFIG,
                   stats, kind, payload, timeout, idx, gpu_id, status, image,
                   actual_seed, calls, stage, raised>>

\* one polling interval of wall-clock time passes; a task inside
\* time.sleep(0.1) comes back and starts its next pass
Tick ==
    /\ \E p \in Tasks : InAcquire(p)
    /\ elapsed' = [p \in Tasks |->
                     IF InAcquire(p)
                     THEN Min(elapsed[p] + 1, ElapsedCap(timeout[p]))
                     ELSE elapsed[p]]
    /\ pc' = [p \in Tasks |-> IF pc[p] = "sleep" THEN "poll" ELSE pc[p]]
    /\ UNCHANGED <<stats_lock, snapshot, waiters, released, gpu_locks, CONFIG,
                   stats, kind, payload, timeout, idx, gpu_id, status, image,
                   actual_seed, calls, stage, raised>>

\* release_gpu without the membership test: _gpu_locks[gpu_id] raises
\* KeyError for an id that is no key
release_gpu_unchecked(locks, id) ==
    IF LockedIn(locks, id)
    THEN [locks |-> SetLocked(locks, id, FALSE), raised |-> FALSE]
    ELSE [locks |-> locks, raised |-> TRUE]

\* release_gpu that looks the lock up but does not release it
release_gpu_kept(locks, id) ==
    IF id \in KeysOf(locks) /\ ~LockedIn(locks, id)
    THEN [locks |-> locks, raised |-> TRUE]
    ELSE [locks |-> locks, raised |-> FALSE]

\* release_gpu that lets the release of an unlocked lock pass
release_gpu_silent(locks, id) ==
    IF id \in KeysOf(locks)
    THEN [locks |-> SetLocked(locks, id, FALSE), raised |-> FALSE]
    ELSE [locks |-> locks, raised |-> FALSE]

\* release_gpu(id): the lock dict after the call, and whether Lock.release()
\* raised RuntimeError (release of an unlocked lock)
release_gpu(locks, id) ==
    IF id \in KeysOf(locks)
    THEN IF LockedIn(locks, id)
         THEN [locks |-> SetLocked(locks, id, FALSE), raised |-> FALSE]
         ELSE [locks |-> locks, raised |-> TRUE]
    ELSE [locks |-> locks, raised |-> FALSE]

\* ------------------------------------------------- POST /generate handler
Count(p, op) == [calls EXCEPT ![p][op] = @ + 1]

\* generate_image is a coroutine without an await: from its first statement
\* to its response it occupies the event loop that runs it
InHandler(p) == kind[p] = "request" /\ pc[p] \notin {"idle", "done"}

BusyLoops == Cardinality({p \in Procs : InHandler(p)})

\* the validated request object the handler works on
request(p) == GenerateRequest(payload[p])

\* what a generation routine returns as the seed it used
SeedsFor(seed) == IF seed = None THEN RandomSeeds ELSE {seed}

\* A request arrives on a free event loop (tasks are numbered in the order
\* they arrive).  The body is validated against GenerateRequest before
\* generate_image is entered: a rejected body is answered 422 by the
\* framework and the handler never runs.  Otherwise the handler starts:
\* server_stats.increment_request(); timeout = CONFIG.get(...);
\* acquire_gpu(timeout=timeout) takes start = time.time()
Arrive(p, bodies) ==
    /\ pc[p] = "idle"
    /\ kind[p] = "none"
    /\ \A q \in Procs : q < p => pc[q] # "idle"
    /\ BusyLoops < NLoops
    /\ \E r \in bodies :
          /\ payload' = [payload EXCEPT ![p] = r]
          /\ IF Valid(r)
             THEN /\ stats' = increment_request(stats)
                  /\ calls' = Count(p, "request")
                  /\ timeout' = [timeout EXCEPT ![p] = CONFIG]
                  /\ pc' = [pc EXCEPT ![p] = "poll"]
                  /\ UNCHANGED status
             ELSE /\ status' = [status EXCEPT ![p] = 422]
                  /\ pc' = [pc EXCEPT ![p] = "done"]
                  /\ UNCHANGED <<stats, calls, timeout>>
    /\ kind' = [kind EXCEPT ![p] = "request"]
    /\ UNCHANGED <<stats_lock, snapshot, waiters, released, gpu_locks, CONFIG,
                   elapsed, idx, gpu_id, image, actual_seed, stage, raised>>

\* a request with one of the bodies the clients send
Receive(p) == Arrive(p, Payloads)

\* Fail503 raised from inside the try block, so that the finally block runs
Fail503InTry(p) ==
    /\ pc[p] = "timedout"
    /\ stats' = increment_failure(stats)
    /\ calls' = Count(p, "failure")
    /\ status' = [status EXCEPT ![p] = 503]
    /\ pc' = [pc EXCEPT ![p] = "finally"]
    /\ UNCHANGED <<stats_lock, snapshot, waiters, released, gpu_locks, CONFIG,
                   kind, payload, timeout, elapsed, idx, gpu_id, image,
                   actual_seed, stage, raised>>

\* Fail503 without the increment_failure() call
Fail503NoCount(p) ==
    /\ pc[p] = "timedout"
    /\ status' = [status EXCEPT ![p] = 503]
    /\ pc' = [pc EXCEPT ![p] = "done"]
    /\ UNCHANGED <<stats_lock, snapshot, waiters, released, gpu_locks, CONFIG,
                   stats, kind, payload, timeout, elapsed, idx, gpu_id, image,
                   actual_seed, calls, stage, raised>>

\* if gpu_id is None: increment_failure(); raise HTTPException(503)
Fail503(p) ==
    /\ pc[p] = "timedout"
    /\ stats' = increment_failure(stats)
    /\ calls' = Count(p, "failure")
    /\ status' = [status EXCEPT ![p] = 503]
    /\ pc' = [pc EXCEPT ![p] = "done"]
    /\ UNCHANGED <<stats_lock, snapshot, waiters, released, gpu_locks, CONFIG,
                   kind, payload, timeout, elapsed, idx, gpu_id, image,
                   actual_seed, stage, raised>>

\* try: server_stats.set_active_generations(1); the model routine is called
SetActive(p) ==
    /\ pc[p] = "acquired"
    /\ stats' = set_active_generations(stats, 1)
    /\ pc' = [pc EXCEPT ![p] = "generating"]
    /\ UNCHANGED <<stats_lock, snapshot, waiters, released, gpu_locks, CONFIG,
                   kind, payload, timeout, elapsed, idx, gpu_id, status,
                   image, actual_seed, calls, stage, raised>>

\* a generation routine returned (image_data, actual_seed):
\* server_stats.increment_success(); result = {...}
Succeed(p, img, s) ==
    /\ image' = [image EXCEPT ![p] = img]
    /\ actual_seed' = [actual_seed EXCEPT ![p] = s]
    /\ stats' = increment_success(stats)
    /\ calls' = Count(p, "success")
    /\ status' = [status EXCEPT ![p] = 200]
    /\ pc' = [pc EXCEPT ![p] = "finally"]

\* generate_flux_image / generate_sdxl_image returns, or raises and the
\* inner except clause calls generate_mock_image; any other model name:
\* increment_failure(); raise HTTPException(400), re-raised as it is
Generate(p) ==
    /\ pc[p] = "generating"
    /\ LET model_name == Lower(request(p).model)
       IN  IF model_name \in {"flux", "sdxl"}
           THEN \E ok \in BOOLEAN, s \in SeedsFor(request(p).seed) :
                   IF ok
                   THEN Succeed(p, "model", s)
                   ELSE /\ pc' = [pc EXCEPT ![p] = "fallback"]
                        /\ calls' = Count(p, "model_raised")
                        /\ UNCHANGED <<stats, status, image, actual_seed>>
           ELSE /\ stats' = increment_failure(stats)
                /\ calls' = Count(p, "failure")
                /\ status' = [status EXCEPT ![p] = 400]
                /\ pc' = [pc EXCEPT ![p] = "finally"]
                /\ UNCHANGED <<image, actual_seed>>
    /\ UNCHANGED <<stats_lock, snapshot, waiters, released, gpu_locks, CONFIG,
                   kind, payload, timeout, elapsed, idx, gpu_id, stage,
                   raised>>

\* Fallback calling generate_mock_image without the seed argument
FallbackUnseeded(p) ==
    /\ pc[p] = "fallback"
    /\ \E ok \in BOOLEAN, s \in SeedsFor(None) :
          IF ok
          THEN Succeed(p, "mock", s)
          ELSE /\ stats' = increment_failure(stats)
               /\ calls' = Count(p, "failure")
               /\ status' = [status EXCEPT ![p] = 500]
               /\ pc' = [pc EXCEPT ![p] = "finally"]
               /\ UNCHANGED <<image, actual_seed>>
    /\ UNCHANGED <<stats_lock, snapshot, waiters, released, gpu_locks, CONFIG,
                   kind, payload, timeout, elapsed, idx, gpu_id, stage,
                   raised>>

\* Fallback with the cleanup at the end of the try body, not in a finally
FallbackNoFinally(p) ==
    /\ pc[p] = "fallback"
    /\ \E ok \in BOOLEAN, s \in SeedsFor(request(p).seed) :
          IF ok
          THEN Succeed(p, "mock", s)
          ELSE /\ stats' = increment_failure(stats)
               /\ calls' = Count(p, "failure")
               /\ status' = [status EXCEPT ![p] = 500]
               /\ pc' = [pc EXCEPT ![p] = "done"]
               /\ UNCHANGED <<image, actual_seed>>
    /\ UNCHANGED <<stats_lock, snapshot, waiters, released, gpu_locks, CONFIG,
                   kind, payload, timeout, elapsed, idx, gpu_id, stage,
                   raised>>

\* generate_mock_image returns (image, seed), or it raises too and the
\* outer except clause runs: increment_failure(); raise HTTPException(500)
Fallback(p) ==
    /\ pc[p] = "fallback"
    /\ \E ok \in BOOLEAN, s \in SeedsFor(request(p).seed) :
          IF ok
          THEN Succeed(p, "mock", s)
          ELSE /\ stats' = increment_failure(stats)
               /\ calls' = Count(p, "failure")
               /\ status' = [status EXCEPT ![p] = 500]
               /\ pc' = [pc EXCEPT ![p] = "finally"]
               /\ UNCHANGED <<image, actual_seed>>
    /\ UNCHANGED <<stats_lock, snapshot, waiters, released, gpu_locks, CONFIG,
                   kind, payload, timeout, elapsed, idx, gpu_id, stage,
                   raised>>

\* finally: server_stats.set_active_generations(0)
ClearActive(p) ==
    /\ pc[p] = "finally"
    /\ stats' = set_active_generations(stats, 0)
    /\ pc' = [pc EXCEPT ![p] = "release"]
    /\ UNCHANGED <<stats_lock, snapshot, waiters, released, gpu_locks, CONFIG,
                   kind, payload, timeout, elapsed, idx, gpu_id, status,
                   image, actual_seed, calls, stage, raised>>

\* Release passing the first key of _gpu_locks instead of its own gpu_id
ReleaseFirst(p) ==
    /\ pc[p] = "release"
    /\ LET r == release_gpu(gpu_locks, gpu_locks[1].id)
       IN  /\ gpu_locks' = r.locks
           /\ status' = [status EXCEPT ![p] = IF r.raised THEN 500 ELSE @]
           /\ image' = [image EXCEPT ![p] = IF r.raised THEN "none" ELSE @]
           /\ stage' = StageAfterRelease(p, gpu_id[p], r.locks # gpu_locks)
           /\ waiters' = WaitersAfterRelease(r.locks # gpu_locks)
    /\ calls' = Count(p, "release")
    /\ pc' = [pc EXCEPT ![p] = "done"]
    /\ UNCHANGED <<stats_lock, snapshot, released, CONFIG, stats, kind,
                   payload, timeout, elapsed, idx, gpu_id, actual_seed,
                   raised>>

\* finally: release_gpu(gpu_id); the response leaves (an error escaping the
\* finally block replaces it by the framework's 500)
Release(p) ==
    /\ pc[p] = "release"
    /\ LET r == release_gpu(gpu_locks, gpu_id[p])
       IN  /\ gpu_locks' = r.locks
           /\ status' = [status EXCEPT ![p] = IF r.raised THEN 500 ELSE @]
           /\ image' = [image EXCEPT ![p] = IF r.raised THEN "none" ELSE @]
           /\ stage' = StageAfterRelease(p, gpu_id[p], r.locks # gpu_locks)
           /\ waiters' = WaitersAfterRelease(r.locks # gpu_locks)
    /\ calls' = Count(p, "release")
    /\ pc' = [pc EXCEPT ![p] = "done"]
    /\ UNCHANGED <<stats_lock, snapshot, released, CONFIG, stats, kind,
                   payload, timeout, elapsed, idx, gpu_id, actual_seed,
                   raised>>

Next ==
    \/ \E p \in Procs :
          \/ Receive(p)
          \/ TryLock(p)
          \/ CheckTimeout(p)
          \/ Fail503(p)
          \/ SetActive(p)
          \/ Generate(p)
          \/ Fallback(p)
          \/ ClearActive(p)
          \/ Release(p)
    \/ Tick

Spec == Init /\ [][Next]_vars

\* every request in the handler keeps running, every generation routine
\* returns or raises, and the clock advances
Step(p) ==
    \/ TryLock(p) \/ CheckTimeout(p) \/ Fail503(p) \/ SetActive(p)
    \/ Generate(p) \/ Fallback(p) \/ ClearActive(p) \/ Release(p)

FairSpec ==
    Spec /\ WF_vars(Tick) /\ \A p \in Procs : WF_vars(Step(p))

\* ------------------------------------- direct callers of the allocator
\* ids a caller may pass to release_gpu: the keys and ids that are no key
ReleaseIds == 0..MaxGpus

\* acquire_gpu(timeout=t): start = time.time().  A call without timeout
\* reads the configured value and goes on as the call with that value, one
\* of the values of t.
ApiAcquire(p) ==
    /\ pc[p] = "idle"
    /\ kind[p] \in {"none", "api"}
    /\ \E t \in ConfigTimeouts :
          /\ timeout' = [timeout EXCEPT ![p] = t]
          /\ stage' = IF p # Caller THEN stage
                       ELSE IF stage = 2 /\ t = 0 THEN 3 ELSE 0
    /\ kind' = [kind EXCEPT ![p] = "api"]
    /\ elapsed' = [elapsed EXCEPT ![p] = 0]
    /\ idx' = [idx EXCEPT ![p] = 1]
    /\ gpu_id' = [gpu_id EXCEPT ![p] = None]
    /\ raised' = [raised EXCEPT ![p] = FALSE]
    /\ pc' = [pc EXCEPT ![p] = "poll"]
    /\ released' = IF p = Caller THEN NotReleased ELSE released
    /\ UNCHANGED <<stats_lock, snapshot, waiters, gpu_locks, CONFIG, stats,
                   payload, status, image, actual_seed, calls>>

\* release_gpu(id) called directly
ApiRelease(p) ==
    /\ pc[p] = "idle"
    /\ kind[p] \in {"none", "api"}
    /\ \E id \in ReleaseIds :
          LET r == release_gpu(gpu_locks, id)
          IN  /\ gpu_locks' = r.locks
              /\ raised' = [raised EXCEPT ![p] = r.raised]
              /\ stage' = StageAfterRelease(p, id, r.locks # gpu_locks)
              /\ released' = IF p = Caller THEN id ELSE released
              /\ waiters' = WaitersAfterRelease(r.locks # gpu_locks)
    /\ kind' = [kind EXCEPT ![p] = "api"]
    /\ UNCHANGED <<stats_lock, snapshot, CONFIG, stats, pc, payload, timeout,
                   elapsed, idx, gpu_id, status, image, actual_seed, calls>>

ApiNext ==
    \/ \E p \in Procs :
          \/ ApiAcquire(p)
          \/ TryLock(p)
          \/ CheckTimeout(p)
          \/ ApiRelease(p)
    \/ Tick

\* the direct callers pass their timeouts, the configuration is not read
InitApi == Init /\ CONFIG = 0

SpecApi == InitApi /\ [][ApiNext]_vars

\* --------------------- requests next to a thread that takes and frees units
\* the owner thread's calls: acquire_gpu with a timeout that allows one
\* pass, and release_gpu of a unit that is held
OwnerStep ==
    \/ ApiAcquire(Owner) /\ timeout'[Owner] < 0
    \/ ApiRelease(Owner) /\ gpu_locks' # gpu_locks

\* a request with the body of the test suite's valid request
ReceiveBase(p) == Arrive(p, {BasePayload})

OrderNext ==
    \/ \E p \in Procs :
          \/ ReceiveBase(p)
          \/ Fail503(p)
          \/ SetActive(p)
          \/ Generate(p)
          \/ Fallback(p)
          \/ ClearActive(p)
          \/ Release(p)
    \/ \E p \in Tasks :
          \/ TryLock(p)
          \/ CheckTimeout(p)
    \/ OwnerStep
    \/ Tick

\* a host with one lock-bearing unit and the largest timeout
InitOrder == Init /\ Len(gpu_locks) = 1 /\ CONFIG = MaxTimeout

SpecOrder == InitOrder /\ [][OrderNext]_vars

\* ------------------------------ validation of the bodies sent to /generate
\* a request with a body at the edge of what GenerateRequest accepts
ReceiveBoundary(p) == Arrive(p, BoundaryPayloads)

AdmitNext ==
    \/ \E p \in Procs :
          \/ ReceiveBoundary(p)
          \/ CheckTimeout(p)
          \/ Fail503(p)
    \/ Tick

\* a host without lock-bearing unit and a timeout of 0: an admitted
\* request is answered after one sleep inside acquire_gpu
InitAdmit == Init /\ gpu_locks = <<>> /\ CONFIG = 0

SpecAdmit == InitAdmit /\ [][AdmitNext]_vars

\* ------------------------------------ threads calling ServerStats methods
Mutators ==
    {"increment_request", "increment_success", "increment_failure",
     "set_queue_length", "set_active_generations"}

StatsOps == Mutators \cup {"get_stats"}

GaugeValues == 0..MaxGauge

\* the counters stay within MaxCount
WithinCount(op) ==
    /\ op = "increment_request" => stats.total_requests < MaxCount
    /\ op = "increment_success" => stats.successful_generations < MaxCount
    /\ op = "increment_failure" => stats.failed_generations < MaxCount

OtherVars ==
    <<gpu_locks, CONFIG, payload, timeout, elapsed, idx, gpu_id, status,
      image, actual_seed, calls, stage, raised, released, waiters>>

\* StatsEnter entering the method body whoever holds the lock
StatsEnterUnlocked(p) ==
    /\ pc[p] = "idle"
    /\ kind[p] \in {"none", "stats"}
    /\ \E op \in StatsOps :
          /\ WithinCount(op)
          /\ pc' = [pc EXCEPT ![p] = op]
    /\ stats_lock' = p
    /\ kind' = [kind EXCEPT ![p] = "stats"]
    /\ UNCHANGED <<stats, snapshot>>
    /\ UNCHANGED OtherVars

\* a thread calls a method of server_stats: with self._lock
StatsEnter(p) ==
    /\ pc[p] = "idle"
    /\ kind[p] \in {"none", "stats"}
    /\ stats_lock = 0
    /\ \E op \in StatsOps :
          /\ WithinCount(op)
          /\ pc' = [pc EXCEPT ![p] = op]
    /\ stats_lock' = p
    /\ kind' = [kind EXCEPT ![p] = "stats"]
    /\ UNCHANGED <<stats, snapshot>>
    /\ UNCHANGED OtherVars

\* the next statement of the method body
StatsBody(p) ==
    /\ kind[p] = "stats"
    /\ pc[p] \in StatsOps \cup {"stamp"}
    /\ CASE pc[p] = "increment_request" ->
               /\ stats' = increment_request(stats)
               /\ pc' = [pc EXCEPT ![p] = "unlock"]
               /\ UNCHANGED snapshot
         [] pc[p] = "increment_success" ->
               /\ stats' = count_success(stats)
               /\ pc' = [pc EXCEPT ![p] = "stamp"]
               /\ UNCHANGED snapshot
         [] pc[p] = "stamp" ->
               /\ stats' = stamp_last_generation(stats)
               /\ pc' = [pc EXCEPT ![p] = "unlock"]
               /\ UNCHANGED snapshot
         [] pc[p] = "increment_failure" ->
               /\ stats' = increment_failure(stats)
               /\ pc' = [pc EXCEPT ![p] = "unlock"]
               /\ UNCHANGED snapshot
         [] pc[p] = "set_queue_length" ->
               /\ \E length \in GaugeValues :
                     stats' = set_queue_length(stats, length)
               /\ pc' = [pc EXCEPT ![p] = "unlock"]
               /\ UNCHANGED snapshot
         [] pc[p] = "set_active_generations" ->
               /\ \E count \in GaugeValues :
                     stats' = set_active_generations(stats, count)
               /\ pc' = [pc EXCEPT ![p] = "unlock"]
               /\ UNCHANGED snapshot
         [] pc[p] = "get_stats" ->
               /\ snapshot' = stats
               /\ pc' = [pc EXCEPT ![p] = "unlock"]
               /\ UNCHANGED stats
    /\ UNCHANGED <<stats_lock, kind>>
    /\ UNCHANGED OtherVars

\* the with block is left: the lock is released and the method returns
\* (get_stats hands its copy to the caller)
StatsExit(p) ==
    /\ kind[p] = "stats"
    /\ pc[p] = "unlock"
    /\ stats_lock' = IF stats_lock = p THEN 0 ELSE stats_lock
    /\ snapshot' = NoSnapshot
    /\ pc' = [pc EXCEPT ![p] = "idle"]
    /\ UNCHANGED <<stats, kind>>
    /\ UNCHANGED OtherVars

StatsNext ==
    \E p \in Procs :
        \/ StatsEnter(p)
        \/ StatsBody(p)
        \/ StatsExit(p)

\* ServerStats on its own: no unit is involved, the configuration is not read
InitStats == Init /\ gpu_locks = <<>> /\ CONFIG = 0

SpecStats == InitStats /\ [][StatsNext]_vars

\* ---------------------------------------------------------------- claims
IsRequest(p) == kind[p] = "request"

\* request p is between acquire_gpu having returned g and its release_gpu
Holding(p, g) ==
    /\ IsRequest(p)
    /\ gpu_id[p] = g
    /\ pc[p] \in {"acquired", "generating", "fallback", "finally", "release"}

Holders(g) == {p \in Procs : Holding(p, g)}

\* collaborator call in progress
Generating(p) == IsRequest(p) /\ pc[p] \in {"generating", "fallback"}

RECURSIVE SumCalls(_, _)
SumCalls(S, op) ==
    IF S = {} THEN 0
    ELSE LET x == CHOOSE x \in S : TRUE
         IN  calls[x][op] + SumCalls(S \ {x}, op)

\* C1: for every lock key, at most one /generate request is between
\* acquire_gpu having returned that key and the matching release_gpu, and
\* the lock is locked exactly while such a request exists; of the requests
\* racing for a free lock only one gets it.
C1_MutualExclusion ==
    \A g \in LockKeys :
        /\ Cardinality(Holders(g)) <= 1
        /\ Locked(g) <=> Holders(g) # {}

\* one request holds a unit while another request found every lock taken
C1_Witness ==
    \E p, q \in Procs, g \in LockKeys :
        /\ p # q
        /\ Holding(p, g)
        /\ IsRequest(q) /\ pc[q] = "sleep"

\* C2: the number of requests whose generation call is in progress never
\* exceeds the number of locks; with one lock two requests never overlap.
C2_GeneratingBound ==
    Cardinality({p \in Procs : Generating(p)}) <= Cardinality(LockKeys)

\* one lock: a request is generating while another one polls for the unit
C2_Witness ==
    \E p, q \in Procs :
        /\ p # q
        /\ Cardinality(LockKeys) = 1
        /\ Generating(p)
        /\ IsRequest(q) /\ InAcquire(q)

\* C3: a request that got a unit calls release_gpu for it exactly once
\* before its response leaves, on every exit path, and never calls it
\* otherwise; when no request is in flight every lock is free.
C3_ReleasedOnce ==
    /\ \A p \in Procs :
          /\ calls[p].release <= 1
          /\ (IsRequest(p) /\ pc[p] = "done") =>
                (calls[p].release = 1 <=> gpu_id[p] # None)
          /\ (IsRequest(p) /\ pc[p] # "done") => calls[p].release = 0
    /\ (\A p \in Procs : pc[p] \in {"idle", "done"}) =>
          \A g \in LockKeys : ~Locked(g)

\* a request that failed after it got a unit has answered, the unit is free
C3_Witness ==
    \E p \in Procs :
        /\ IsRequest(p) /\ pc[p] = "done"
        /\ status[p] = 500
        /\ gpu_id[p] # None /\ calls[p].release = 1
        /\ ~Locked(gpu_id[p])

\* C4: a schema-valid /generate call has, when its response leaves,
\* incremented total_requests exactly once and exactly one of
\* successful_generations / failed_generations exactly once; the counters
\* in server_stats are the sums of these increments.
C4_CountedOnce ==
    /\ \A p \in Procs :
          /\ calls[p].request <= 1
          /\ calls[p].success + calls[p].failure <= 1
          /\ (IsRequest(p) /\ Valid(payload[p]) /\ pc[p] = "done") =>
                /\ calls[p].request = 1
                /\ calls[p].success + calls[p].failure = 1
    /\ stats.total_requests = SumCalls(Procs, "request")
    /\ stats.successful_generations = SumCalls(Procs, "success")
    /\ stats.failed_generations = SumCalls(Procs, "failure")

\* one call ended in success and another one in the timeout failure
C4_Witness ==
    \E p, q \in Procs :
        /\ pc[p] = "done" /\ status[p] = 200
        /\ pc[q] = "done" /\ status[q] = 503
        /\ stats.successful_generations = 1
        /\ stats.failed_generations = 1
        /\ stats.total_requests = 2

\* C5: every outcome of a /generate call, a rejection by schema validation
\* included, increments exactly one of the success / failure counters; a
\* rejected request increments failed_generations once.
C5_EveryOutcomeCounted ==
    \A p \in Procs :
        (IsRequest(p) /\ pc[p] = "done") =>
            /\ calls[p].success + calls[p].failure = 1
            /\ status[p] = 422 => calls[p].failure = 1

\* a body whose only defect is a model name outside the supported set
UnsupportedModel(r) ==
    /\ Strip(r.model) # ""
    /\ Lower(r.model) \notin {"flux", "sdxl"}
    /\ Valid([r EXCEPT !.model = "flux"])

\* C6: a request naming an unsupported model is answered 400 without an
\* acquire attempt, and failed_generations is incremented by one.
C6_UnsupportedModel400 ==
    \A p \in Procs :
        (IsRequest(p) /\ pc[p] = "done" /\ UnsupportedModel(payload[p])) =>
            /\ status[p] = 400
            /\ gpu_id[p] = None /\ calls[p].release = 0
            /\ calls[p].failure = 1

\* C7: when the generation routine selected for the model raises, the
\* request ends failed: failed_generations incremented, successful_generations
\* not, status 500, no image in the response.
C7_ModelErrorFails ==
    \A p \in Procs :
        (IsRequest(p) /\ pc[p] = "done" /\ calls[p].model_raised = 1) =>
            /\ status[p] = 500
            /\ calls[p].failure = 1 /\ calls[p].success = 0
            /\ image[p] = "none"

\* C8: a request that finds every lock held on each pass until its budget
\* is over ends 503 with failed_generations incremented once; it never
\* generates and never calls release_gpu, none of its steps changes a lock
\* or the active-generation gauge, and a lock that is held is never handed
\* out a second time.
C8_TimeoutOutcome ==
    \A p \in Procs :
        (IsRequest(p) /\ pc[p] = "done" /\ status[p] = 503) =>
            /\ gpu_id[p] = None
            /\ calls[p].failure = 1 /\ calls[p].success = 0
            /\ calls[p].release = 0
            /\ image[p] = "none"

C8_TimeoutStep ==
    \A p \in Procs :
        /\ (pc[p] = "poll" /\ pc'[p] \in {"sleep", "timedout"}) =>
              UNCHANGED <<gpu_locks, stats>>
        /\ (pc[p] = "poll" /\ pc'[p] = "poll" /\ idx'[p] # idx[p]) =>
              /\ UNCHANGED <<gpu_locks, stats>>
              /\ gpu_locks[idx[p]].locked
        /\ (pc[p] = "poll" /\ pc'[p] = "acquired") =>
              ~Locked(gpu_id'[p])
        /\ (IsRequest(p) /\ pc[p] = "timedout" /\ pc'[p] # "timedout") =>
              /\ pc'[p] = "done" /\ status'[p] = 503
              /\ stats' = [stats EXCEPT !.failed_generations = @ + 1]
              /\ UNCHANGED gpu_locks

C8_ResourceTimeout == []C8_TimeoutOutcome /\ [][C8_TimeoutStep]_vars

\* a request timed out while another request kept the only unit
C8_Witness ==
    \E p, q \in Procs :
        /\ IsRequest(p) /\ pc[p] = "done" /\ status[p] = 503
        /\ LockKeys # {}
        /\ \A g \in LockKeys : Holding(q, g)

\* C9: with an empty lock set every acquire_gpu call terminates, given
\* that time advances and the caller keeps running, and returns None; it
\* never returns a unit id.
C9_EmptyLockSet ==
    /\ [](LockKeys = {} =>
            \A p \in Procs : gpu_id[p] = None /\ pc[p] # "acquired")
    /\ \A p \in Procs :
          (LockKeys = {} /\ InAcquire(p)) ~>
              (pc[p] \in {"timedout", "done", "idle"} /\ gpu_id[p] = None)

\* CPU-only inventory: a request's acquire_gpu came back with None
C9_Witness ==
    \E p \in Procs :
        /\ LockKeys = {}
        /\ pc[p] = "timedout" /\ gpu_id[p] = None

\* C10: a caller that acquired a unit, released it and then calls
\* acquire_gpu(timeout=0), with no other task taking or freeing a lock in
\* between, gets a unit on the first pass: that call never finishes a pass
\* empty-handed.
C10_ReleasedIsAcquirable ==
    stage = 3 =>
        /\ pc[Caller] \in {"poll", "idle"}
        /\ pc[Caller] = "poll" => idx[Caller] <= Len(gpu_locks)
        /\ pc[Caller] = "idle" => gpu_id[Caller] # None

\* the second acquire_gpu of the sequence has returned a unit
C10_Witness ==
    stage = 3 /\ pc[Caller] = "idle" /\ gpu_id[Caller] # None

\* C11: release_gpu called with an id that is not a key of _gpu_locks
\* raises nothing and returns with every lock as it was, in every lock state
\* the callers can produce; the caller that made such a call saw no error.
C11_UnknownIdNoOp ==
    /\ \A id \in (ReleaseIds \cup {None}) \ LockKeys :
          release_gpu(gpu_locks, id) = [locks |-> gpu_locks, raised |-> FALSE]
    /\ released \notin (LockKeys \cup {NotReleased}) => ~raised[Caller]

\* the caller's last call released an id that is no key while a lock is held
C11_Witness ==
    /\ released \notin (LockKeys \cup {NotReleased})
    /\ ~raised[Caller]
    /\ \E g \in LockKeys : Locked(g)

\* C12: an acquire_gpu call with timeout <= 0 makes one pass over the locks
\* and, having got none, returns None: it never sleeps and so never starts
\* a second pass, whatever the clock reads.
C12_OnePassOnly ==
    \A p \in Procs :
        (InAcquire(p) /\ timeout[p] <= 0) => pc[p] # "sleep"

\* /generate calls that have been answered, by the status of the answer
Answered(codes) ==
    {p \in Procs : IsRequest(p) /\ pc[p] = "done" /\ status[p] \in codes}

Succeeded == Answered({200})

Failed == Answered({400, 422, 500, 503})

\* C13: the counters a /status call copies out of server_stats satisfy
\* total_requests >= successful_generations + failed_generations at any
\* time, and when no /generate call is in flight they are: successful the
\* number of calls that ended in success, failed the number that ended in
\* failure, total at least their sum.
C13_StatusCounts ==
    /\ stats.total_requests >=
          stats.successful_generations + stats.failed_generations
    /\ (\A p \in Procs : pc[p] \in {"idle", "done"}) =>
          /\ stats.successful_generations = Cardinality(Succeeded)
          /\ stats.failed_generations = Cardinality(Failed)
          /\ stats.total_requests >=
                Cardinality(Succeeded) + Cardinality(Failed)

\* C14: every step of every sequence of ServerStats operations leaves each
\* of total_requests, successful_generations and failed_generations as it
\* was or larger by one; only the gauges active_generations and
\* queue_length go down.
C14_Step ==
    /\ stats'.total_requests \in
          {stats.total_requests, stats.total_requests + 1}
    /\ stats'.successful_generations \in
          {stats.successful_generations, stats.successful_generations + 1}
    /\ stats'.failed_generations \in
          {stats.failed_generations, stats.failed_generations + 1}

C14_CountersMonotone == [][C14_Step]_vars

\* each counter has been incremented and both gauges have been set
C14_Witness ==
    /\ stats.total_requests >= 1
    /\ stats.successful_generations >= 1
    /\ stats.failed_generations >= 1
    /\ stats.queue_length = MaxGauge
    /\ stats.active_generations = MaxGauge

\* a task is between the statements of a mutator's body
MidUpdate(p) == kind[p] = "stats" /\ pc[p] \in Mutators \cup {"stamp"}

\* C15: whatever the interleaving of the mutators with get_stats, the copy
\* get_stats returns shows no half-applied update: successful_generations
\* is at least 1 exactly if last_generation is set, and the copy is taken
\* of the whole dict at an instant at which no mutator is inside its body.
C15_SnapshotWhole ==
    snapshot # NoSnapshot =>
        /\ snapshot.successful_generations >= 1
              <=> snapshot.last_generation # "None"
        /\ snapshot = stats
        /\ \A p \in Procs : ~MidUpdate(p)

\* get_stats copied the dict after an increment_success, with another
\* thread that uses server_stats around
C15_Witness ==
    /\ snapshot # NoSnapshot
    /\ snapshot.successful_generations >= 1
    /\ snapshot.last_generation = "time"
    /\ \E p \in Procs : kind[p] = "stats" /\ pc[p] = "idle"

\* C16: a /generate call that gave a seed and is answered with success
\* carries that seed in the response metadata: the routine that made the
\* image, the mock routine after the model routine raised included, was
\* called with seed=request.seed and returns the seed it was called with.
C16_SeedEchoed ==
    \A p \in Procs :
        (IsRequest(p) /\ status[p] = 200 /\ payload[p].seed # None) =>
            actual_seed[p] = payload[p].seed

\* a call with a seed was served by the mock routine after its model
\* routine raised
C16_Witness ==
    \E p \in Procs :
        /\ IsRequest(p) /\ pc[p] = "done" /\ status[p] = 200
        /\ payload[p].seed # None
        /\ calls[p].model_raised = 1 /\ image[p] = "mock"
        /\ actual_seed[p] = payload[p].seed

\* a request holds a unit and may have its generation call in progress
Working(p) == \E g \in LockKeys : Holding(p, g)

\* an event loop is free to start the handler of a further request
Admissible == BusyLoops < NLoops

\* C17: a request sleeping between two passes of acquire_gpu blocks no
\* other request: while it waits a further request can be admitted (the
\* wait leaves an event loop free to run another handler).
C17_WaitingBlocksNobody ==
    (\E p \in Procs : IsRequest(p) /\ pc[p] = "sleep") => Admissible

\* C18: a request never takes the stats mutex while it holds a unit lock:
\* no step of a request that holds a unit is a ServerStats operation (none
\* changes server_stats, none is counted as an increment).
C18_Step ==
    \A p \in Procs :
        (IsRequest(p) /\ Working(p) /\ pc'[p] # pc[p]) =>
            /\ stats' = stats
            /\ calls'[p].success = calls[p].success
            /\ calls'[p].failure = calls[p].failure

C18_NoNestedLocking == [][C18_Step]_vars

\* C19: the timeout a /generate request passes to acquire_gpu is the one
\* its caller supplied with the request, and the configured
\* image_generation_timeout only when the caller supplied none.
C19_TimeoutPerRequest ==
    \A p \in Procs :
        (IsRequest(p) /\ InAcquire(p)) =>
            timeout[p] = IF payload[p].timeout # None
                         THEN payload[p].timeout
                         ELSE CONFIG

\* the three tiers of the discovery policy
Dedicated(in, G) ==
    /\ in.nvidia.ok
    /\ Len(G) = Len(in.nvidia.lines)
    /\ \A i \in 1..Len(G) : G[i].type = "NVIDIA"

Shared(G) == Len(G) = 1 /\ G[1].type = "Apple"

CpuOnly(G) == Len(G) = 1 /\ G[1].type = "CPU"

\* C20: whatever the nvidia-smi query and the platform probes did, the list
\* scan_gpus returned (the one the locks were built from) is non-empty and
\* in exactly one tier: one NVIDIA unit per device the query reported, or
\* one Apple unit, or one CPU unit; never a mixture, also when the query's
\* output fails part-way.
C20_OneTier ==
    \A in \in ScanInputs :
        LET G == scan_gpus(in)
        IN  LockOrderOf(G) = LockOrder =>
                /\ G # <<>>
                /\ Dedicated(in, G) \/ Shared(G) \/ CpuOnly(G)
                /\ \A i, j \in 1..Len(G) : G[i].type = G[j].type

\* the conditions on the fields of a body, one by one
SupportedModels == {"flux", "sdxl"}

MeetsSchema(r) ==
    /\ Strip(r.prompt) # ""
    /\ Lower(r.model) \in SupportedModels
    /\ r.width \in 64..2048 /\ r.height \in 64..2048
    /\ r.steps \in 1..100
    /\ r.guidance_scale \in 10..200
    /\ r.seed = None \/ r.seed \in Nat

\* the request has passed server_stats.increment_request() and called
\* acquire_gpu
Admitted(p) ==
    /\ calls[p].request = 1
    /\ pc[p] \in {"poll", "sleep", "timedout", "acquired", "generating",
                  "fallback", "finally", "release"}
       \/ (pc[p] = "done" /\ status[p] # 422)

GetsUnit(p) ==
    /\ pc[p] = "poll" /\ pc'[p] \notin {"poll", "sleep"}
    /\ gpu_id'[p] # None

\* task p's acquire_gpu call returns None in this step
GivesUp(p) ==
    /\ InAcquire(p) /\ pc'[p] \notin {"poll", "sleep"}
    /\ gpu_id'[p] = None

C22_Step ==
    \A p \in Procs :
        /\ (pc'[p] = "poll" /\ pc[p] # "poll") => idx'[p] = 1
        /\ (pc[p] = "poll" /\ pc'[p] = "poll" /\ idx'[p] # idx[p]) =>
              /\ idx'[p] = idx[p] + 1
              /\ gpu_locks[idx[p]].locked
              /\ UNCHANGED gpu_locks
        /\ GetsUnit(p) =>
              /\ idx[p] \in DOMAIN gpu_locks
              /\ gpu_id'[p] = gpu_locks[idx[p]].id
              /\ ~gpu_locks[idx[p]].locked
              /\ gpu_locks' = SetLocked(gpu_locks, gpu_id'[p], TRUE)

\* the caller is the only thread that has called the allocator, and the
\* unit its acquire_gpu call returned is the only one held
C22_LoneCaller ==
    /\ stage = 1
    /\ \A q \in Procs \ {Caller} : kind[q] = "none"
    /\ \A g \in LockKeys : Locked(g) <=> g = gpu_id[Caller]

\* C22: a pass of acquire_gpu starts at the first key of _gpu_locks and
\* moves to the next key only past a lock it found held; the call returns
\* the key of the first lock it turns from free to held, so a later unit is
\* returned only past earlier ones found held in that pass, and a lone
\* caller finding every lock free gets the first key.
C22_DiscoveryOrder ==
    /\ [][C22_Step]_vars
    /\ [](C22_LoneCaller => gpu_id[Caller] = gpu_locks[1].id)

\* the caller got the second unit while the first one is held
C22_Witness ==
    /\ stage = 1
    /\ Len(gpu_locks) >= 2
    /\ gpu_id[Caller] = gpu_locks[2].id
    /\ gpu_locks[1].locked

C23_Step ==
    \A p \in Tasks :
        /\ GivesUp(p) =>
              /\ pc[p] = "poll"
              /\ idx[p] > Len(gpu_locks)
              /\ elapsed[p] > timeout[p]
        /\ (pc[p] = "poll" /\ pc'[p] = "poll" /\ idx'[p] # idx[p]) =>
              gpu_locks[idx[p]].locked
        /\ (pc[p] = "poll" /\ pc'[p] = "sleep") =>
              /\ idx[p] > Len(gpu_locks)
              /\ elapsed[p] <= timeout[p]
        /\ (pc[p] = "sleep" /\ pc'[p] # "sleep") =>
              /\ pc'[p] = "poll" /\ idx'[p] = 1
              /\ elapsed'[p] >= elapsed[p]

\* C23: acquire_gpu returns None only from the timeout test that follows a
\* full pass in which every lock was found held, and only when the elapsed
\* time is strictly greater than the timeout; while elapsed <= timeout the
\* call sleeps, and after a sleep it starts another pass at the first lock.
C23_TimeoutAfterFullPass ==
    /\ [][C23_Step]_vars
    /\ [](\A p \in Tasks : pc[p] = "poll" => idx[p] \in 1..(Len(gpu_locks) + 1))

\* a request's acquire_gpu call returned None after it had slept for the
\* whole timeout while the unit was held
C23_Witness ==
    \E p \in Procs :
        /\ IsRequest(p) /\ pc[p] = "timedout" /\ gpu_id[p] = None
        /\ CONFIG >= 1
        /\ \A g \in LockKeys : Locked(g)

C24_Step ==
    \A p \in Tasks :
        (/\ pc[p] = "poll"
         /\ idx[p] \in DOMAIN gpu_locks
         /\ ~gpu_locks[idx[p]].locked
         /\ <<pc[p], idx[p]>>' # <<pc[p], idx[p]>>) =>
            /\ gpu_id'[p] = gpu_locks[idx[p]].id
            /\ pc'[p] = ReturnTo(p, "acquired")
            /\ \A q \in Tasks \ {p} : pc'[q] = pc[q] /\ idx'[q] = idx[q]

\* C24: units are not handed out in arrival order.  A task that tries a
\* free lock takes it whoever else is inside acquire_gpu, and the others
\* stay where they are: a request that started polling later gets a unit
\* freed while both waited, and the earlier one goes on waiting or times
\* out.
C24_NotFifo == [][C24_Step]_vars

\* requests A and B, A the earlier, were both inside acquire_gpu when the
\* unit was freed; B holds it now and A is still waiting
C24_Witness ==
    \E A, B \in Procs :
        /\ A < B
        /\ {A, B} \subseteq waiters
        /\ InAcquire(A)
        /\ \E g \in LockKeys : Holding(B, g) /\ Locked(g)

\* C25: given that the generation routines return or raise, that every
\* request in the handler keeps running and that the clock advances, every
\* /generate request is answered.  A request in the handler can always
\* take its next step unless it sleeps inside acquire_gpu, and that loop
\* ends once the elapsed time exceeds the timeout.
C25_EveryRequestAnswered ==
    /\ [](\A p \in Procs :
             (InHandler(p) /\ pc[p] # "sleep") => ENABLED Step(p))
    /\ \A p \in Procs :
          IsRequest(p) ~> (pc[p] = "done" /\ status[p] # 0)

\* every request is answered, one of them after it had waited in
\* acquire_gpu for the whole timeout while the other held the unit
C25_Witness ==
    /\ CONFIG >= 1
    /\ \A p \in Procs : IsRequest(p) /\ pc[p] = "done"
    /\ \E p, q \in Procs :
          /\ status[p] = 503 /\ calls[p].failure = 1
          /\ status[q] = 200 /\ calls[q].release = 1

\* locks taken and locks freed by a step
Taken == {i \in DOMAIN gpu_locks : ~gpu_locks[i].locked /\ gpu_locks'[i].locked}

Freed == {i \in DOMAIN gpu_locks : gpu_locks[i].locked /\ ~gpu_locks'[i].locked}

C26_Step ==
    /\ \A p \in Procs :
          (pc[p] = "release" /\ pc'[p] = "done") =>
             /\ calls[p].release = 0 /\ calls[p].request = 1
             /\ gpu_id[p] \in LockKeys /\ Locked(gpu_id[p])
             /\ Holders(gpu_id[p]) = {p}
             /\ gpu_locks' = SetLocked(gpu_locks, gpu_id[p], FALSE)
    /\ \A i \in Freed :
          \E p \in Procs :
             /\ Holding(p, gpu_locks[i].id)
             /\ pc[p] = "release" /\ pc'[p] = "done"

\* C26: the handler passes to release_gpu the id its own acquire_gpu call
\* returned, once, while the lock of that id is held and the request is
\* its only holder; a lock goes from held to free only in the release step
\* of the request that holds it, so no request frees another one's lock.
C26_ReleasesOwnUnit ==
    /\ [][C26_Step]_vars
    /\ [](\A p \in Procs : \A g \in LockKeys : Holding(p, g) => Locked(g))

\* a request has released its unit while another request holds another one
C26_Witness ==
    \E p, q \in Procs :
        /\ IsRequest(p) /\ pc[p] = "done" /\ calls[p].release = 1
        /\ ~Locked(gpu_id[p])
        /\ \E g \in LockKeys : g # gpu_id[p] /\ Holding(q, g) /\ Locked(g)

\* C27: the active_generations gauge is not 0 while a request is inside
\* its generation routine, also when another request finishes meanwhile.
C27_GaugeWhileGenerating ==
    (\E p \in Procs : Generating(p)) => stats.active_generations # 0

\* the requests between acquire_gpu having returned a unit and release_gpu
HoldingRequests == {p \in Procs : \E g \in LockKeys : Holding(p, g)}

C28_Units ==
    /\ \A g \in LockKeys : Locked(g) <=> Holders(g) # {}
    /\ Cardinality({g \in LockKeys : Locked(g)}) = Cardinality(HoldingRequests)
    /\ \A p \in Procs :
          (IsRequest(p) /\ (pc[p] = "timedout" \/ status[p] = 503)) =>
             gpu_id[p] = None /\ p \notin HoldingRequests

C28_Step ==
    /\ Cardinality(Taken) <= 1
    /\ \A p \in Procs :
          /\ GetsUnit(p) => Taken = {idx[p]}
          /\ GivesUp(p) => UNCHANGED gpu_locks
          /\ (/\ pc[p] = "poll" /\ pc'[p] \in {"poll", "sleep"}
              /\ <<pc[p], idx[p]>>' # <<pc[p], idx[p]>>) =>
                UNCHANGED gpu_locks

\* C28: every held lock is the one unit of one request that is between
\* acquire_gpu and release_gpu, so a request holds at most one unit; a step
\* of acquire_gpu takes at most one lock, the one it returns, and a call
\* that returns None has taken none.
C28_AtMostOneUnit == []C28_Units /\ [][C28_Step]_vars

\* a request's acquire_gpu call returned None while another request holds
\* the one held unit
C28_Witness ==
    \E p, q \in Procs :
        /\ IsRequest(p) /\ pc[p] = "timedout"
        /\ HoldingRequests = {q}
        /\ Cardinality({g \in LockKeys : Locked(g)}) = 1

\* no thread but the caller has used the allocator
C29_Alone == \A q \in Procs \ {Caller} : kind[q] = "none"

\* C29: release_gpu of a key whose lock is free raises (RuntimeError from
\* Lock.release()) and leaves every lock as it was, in every lock state the
\* callers can produce; after a release by a caller that is alone, the lock
\* is free whether the call raised or not.
C29_DoubleReleaseRaises ==
    /\ \A id \in LockKeys :
          ~Locked(id) =>
             release_gpu(gpu_locks, id) = [locks |-> gpu_locks, raised |-> TRUE]
    /\ (C29_Alone /\ released \in LockKeys) => ~Locked(released)
    /\ \A p \in Procs : raised[p] => kind[p] = "api" /\ pc[p] = "idle"

\* the caller, alone, released the unit its acquire_gpu call had returned
\* and found the lock free already: the call raised and the lock is free
C29_Witness ==
    /\ C29_Alone
    /\ released \in LockKeys
    /\ released = gpu_id[Caller]
    /\ raised[Caller]
    /\ ~Locked(released)

\* C30: queue_length is 0 in every state the handler can reach, whatever
\* the number of requests inside acquire_gpu.
C30_QueueLengthZero == stats.queue_length = 0

\* every request is asleep inside acquire_gpu
C30_Witness ==
    /\ \A p \in Procs : IsRequest(p) /\ pc[p] = "sleep"
    /\ stats.total_requests = NProc
    /\ stats.queue_length = 0

====
